---- MODULE Spec2Model ----
(***************************************************************************)
(* A model of the Genuka Django boilerplate: the OAuth callback            *)
(* (views.CallbackView, services.oauth), the provider client               *)
(* (services.genuka_api), the tenant table (models.Company,                *)
(* services.company), the double-cookie JWT session (services.session)     *)
(* and the session, refresh, logout and webhook views (views.py).          *)
(*                                                                         *)
(* Time is in seconds. A request that touches the table once is one        *)
(* action; a request that reads a row, does something else and saves the   *)
(* row later (RefreshView.post, CompanyService.update_by_id) is two        *)
(* actions, so that other requests interleave between the read and the     *)
(* save.                                                                   *)
(***************************************************************************)
EXTENDS Integers, Sequences, FiniteSets, TLC

VARIABLES
    now,        \* the wall clock, seconds (time.time(), timezone.now())
    companies,  \* the companies table: company id -> row (models.Company)
    held,       \* credential pairs the clients hold, each <<company id, iat>>
    pending,    \* requests between their read and their save: worker -> locals
    served,     \* the number of requests that have arrived
    last        \* the request completed last and the response it got

vars == <<now, companies, held, pending, served, last>>

----------------------------------------------------------------------------
(* Bounds of the model. *)

MaxInstant == 3     \* the clock stops at the MaxInstant-th instant of Timeline
MaxHeld == 1        \* credential pairs the clients keep at once
NumWorkers == 2     \* requests that can be between read and save at once
MaxRequests == 2    \* requests that arrive in one behaviour of Spec
MaxCallbacks == 2   \* callbacks that arrive in one behaviour of SpecCallback
MaxLifecycleRequests == 3   \* requests that arrive in one behaviour of SpecLifecycle
MaxRaceRequests == 3        \* requests that arrive in one behaviour of SpecRace
MaxReplays == 3             \* submissions of one callback in one behaviour of SpecReplay
MaxAge == 600               \* oldest timestamp, in seconds, given to the replay guard in SpecGuard

(* Program constants. *)

SESSION_MAX_AGE == 60 * 60 * 7
REFRESH_MAX_AGE == 60 * 60 * 24 * 30
OAUTH_TIMESTAMP_TOLERANCE == 300         \* settings.OAUTH_TIMESTAMP_TOLERANCE
DEFAULT_EXPIRES_IN_MINUTES == 60
GENUKA_CLIENT_SECRET == "client-secret"  \* settings.GENUKA_CLIENT_SECRET
GENUKA_DEFAULT_REDIRECT == <<"/", "home">> \* settings.GENUKA_DEFAULT_REDIRECT
SESSION_COOKIE_NAME == "session"
REFRESH_COOKIE_NAME == "refresh_session"

None == "None"      \* Python's None: a missing parameter, key or column value

----------------------------------------------------------------------------
(* Python helpers. *)

Range(s) == {s[i] : i \in DOMAIN s}

\* dict.get(key, default)
Get(d, key, default) == IF key \in DOMAIN d THEN d[key] ELSE default

\* truthiness of an optional string: None and "" are falsy
Truthy(s) == s # None /\ s # ""

----------------------------------------------------------------------------
(* Strings that can hold reserved characters are sequences of symbols: a   *)
(* symbol is one reserved character ("/", " ", "%") or a run of unreserved *)
(* characters ("home", "2F", "20", "25").                                  *)

Reserved == {"/", " ", "%"}
HexOf == [c \in Reserved |-> CASE c = "/" -> "2F" [] c = " " -> "20" [] c = "%" -> "25"]

\* urllib.parse.quote(s, safe=''), as urlencode(quote_via=quote) calls it:
\* every reserved character becomes "%" followed by its two hex digits.
RECURSIVE quote(_)
quote(s) ==
    IF s = <<>> THEN <<>>
    ELSE (IF Head(s) \in Reserved THEN <<"%", HexOf[Head(s)]>> ELSE <<Head(s)>>)
         \o quote(Tail(s))

\* urllib.parse.unquote(s): every "%" followed by two hex digits becomes the
\* character they name; anything else is kept.
RECURSIVE unquote(_)
unquote(s) ==
    IF s = <<>> THEN <<>>
    ELSE IF Head(s) = "%" /\ Len(s) >= 2 /\ (\E c \in Reserved : HexOf[c] = s[2])
         THEN <<CHOOSE c \in Reserved : HexOf[c] = s[2]>> \o unquote(Tail(Tail(s)))
         ELSE <<Head(s)>> \o unquote(Tail(s))

----------------------------------------------------------------------------
(* services/oauth.py: the signature verifier and the replay guard.         *)

\* The callback timestamp parameter as text: form "int" is a decimal number
\* (val), "text" is a non-numeric string, "empty" is "", "absent" is None.
TsInt(n) == [form |-> "int", val |-> n]
TsText == [form |-> "text", val |-> 0]
TsEmpty == [form |-> "empty", val |-> 0]
TsAbsent == [form |-> "absent", val |-> 0]

\* lexicographic order of the four signed keys
KeyRank == [k \in {"code", "company_id", "redirect_to", "timestamp"} |->
              CASE k = "code" -> 1 [] k = "company_id" -> 2
                [] k = "redirect_to" -> 3 [] k = "timestamp" -> 4]

sorted_params_insertion_order(items) == items

\* dict(sorted(params.items())): the items in ascending key order
sorted_params(items) ==
    [i \in 1..Len(items) |->
        CHOOSE p \in Range(items) :
            Cardinality({q \in Range(items) : KeyRank[q[1]] < KeyRank[p[1]]}) = i - 1]

\* urlencode(sorted_params, quote_via=quote): key=value pairs, each value
\* quoted. Codes, company ids and timestamps are drawn from unreserved text,
\* which quote leaves as it is; redirect_to is a symbol sequence.
urlencode(items) ==
    [i \in 1..Len(items) |->
        <<items[i][1],
          IF items[i][1] = "redirect_to" THEN quote(items[i][2]) ELSE items[i][2]>>]

\* HMAC-SHA256 as an ideal keyed hash: the digest names its key and message.
HmacSha256Hex(key, msg) == [form |-> "hex", key |-> key, msg |-> msg]

\* other values of the hmac parameter: missing, and text that is not ASCII
HmacAbsent == [form |-> "absent", key |-> None, msg |-> <<>>]
HmacNonAscii == [form |-> "nonascii", key |-> None, msg |-> <<>>]

generate_hmac(params) ==
    HmacSha256Hex(GENUKA_CLIENT_SECRET, urlencode(sorted_params(params)))

\* hmac.compare_digest(a, b) on str arguments: raises TypeError when one of
\* them has a non-ASCII character.
compare_digest(a, b) ==
    IF b.form = "nonascii" THEN "TypeError"
    ELSE IF a = b THEN "True" ELSE "False"

verify_hmac(params, received_hmac) ==
    compare_digest(generate_hmac(params), received_hmac)

validate_timestamp_boundary_excluded(timestamp, current_time) ==
    IF timestamp.form # "int" THEN FALSE
    ELSE LET age == current_time - timestamp.val
         IN  age < OAUTH_TIMESTAMP_TOLERANCE

validate_timestamp_parse_only(timestamp, current_time) == timestamp.form = "int"

validate_timestamp(timestamp, current_time) ==
    IF timestamp.form # "int" THEN FALSE     \* int() raised ValueError/TypeError
    ELSE LET age == current_time - timestamp.val
         IN  age <= OAUTH_TIMESTAMP_TOLERANCE

validate_callback_params_code_only(code, company_id, timestamp, hmac_signature) ==
    Truthy(code)

validate_callback_params(code, company_id, timestamp, hmac_signature) ==
    /\ Truthy(code)
    /\ Truthy(company_id)
    /\ timestamp.form \notin {"absent", "empty"}
    /\ hmac_signature.form \notin {"absent", "empty"}

----------------------------------------------------------------------------
(* services/genuka_api.py: the provider client. The provider is the        *)
(* environment: a reply is its HTTP outcome ("ok", "http_error" for a      *)
(* non-success status, "unreachable" when requests raises) and JSON body.  *)
(* A call is recorded with its endpoint, the credential or id sent, and    *)
(* the reply.                                                              *)

ProviderReply(outcome, body) == [outcome |-> outcome, body |-> body]

exchange_code_for_token_unchecked(code, reply) ==
    [exc |-> None,
     data |-> [access_token |-> Get(reply.body, "access_token", None),
               refresh_token |-> Get(reply.body, "refresh_token", None),
               expires_in_minutes |->
                   Get(reply.body, "expires_in_minutes", DEFAULT_EXPIRES_IN_MINUTES)],
     calls |-> <<[endpoint |-> "oauth/token", sent |-> code, reply |-> reply]>>]

exchange_code_for_token(code, reply) ==
    IF reply.outcome = "unreachable"
    THEN [exc |-> "ConnectionError", data |-> <<>>, calls |-> <<[endpoint |-> "oauth/token", sent |-> code, reply |-> reply]>>]
    ELSE IF reply.outcome # "ok"
    THEN [exc |-> "Exception", data |-> <<>>, calls |-> <<[endpoint |-> "oauth/token", sent |-> code, reply |-> reply]>>]
    ELSE [exc |-> None,
          data |-> [access_token |-> Get(reply.body, "access_token", None),
                    refresh_token |-> Get(reply.body, "refresh_token", None),
                    expires_in_minutes |->
                        Get(reply.body, "expires_in_minutes", DEFAULT_EXPIRES_IN_MINUTES)],
          calls |-> <<[endpoint |-> "oauth/token", sent |-> code, reply |-> reply]>>]

refresh_access_token_unchecked(refresh_token, reply) ==
    [exc |-> None,
     data |-> [access_token |-> Get(reply.body, "access_token", None),
               refresh_token |-> Get(reply.body, "refresh_token", None),
               expires_in_minutes |->
                   Get(reply.body, "expires_in_minutes", DEFAULT_EXPIRES_IN_MINUTES)],
     calls |-> <<[endpoint |-> "oauth/refresh", sent |-> refresh_token, reply |-> reply]>>]

refresh_access_token(refresh_token, reply) ==
    IF reply.outcome = "unreachable"
    THEN [exc |-> "ConnectionError", data |-> <<>>, calls |-> <<[endpoint |-> "oauth/refresh", sent |-> refresh_token, reply |-> reply]>>]
    ELSE IF reply.outcome # "ok"
    THEN [exc |-> "Exception", data |-> <<>>, calls |-> <<[endpoint |-> "oauth/refresh", sent |-> refresh_token, reply |-> reply]>>]
    ELSE [exc |-> None,
          data |-> [access_token |-> Get(reply.body, "access_token", None),
                    refresh_token |-> Get(reply.body, "refresh_token", None),
                    expires_in_minutes |->
                        Get(reply.body, "expires_in_minutes", DEFAULT_EXPIRES_IN_MINUTES)],
          calls |-> <<[endpoint |-> "oauth/refresh", sent |-> refresh_token, reply |-> reply]>>]

get_company_info(company_id, reply) ==
    IF reply.outcome = "unreachable"
    THEN [exc |-> "ConnectionError", data |-> <<>>, calls |-> <<[endpoint |-> "companies", sent |-> company_id, reply |-> reply]>>]
    ELSE IF reply.outcome # "ok"
    THEN [exc |-> None, data |-> [name |-> <<"Company ", company_id>>],
          calls |-> <<[endpoint |-> "companies", sent |-> company_id, reply |-> reply]>>]
    ELSE [exc |-> None, data |-> reply.body, calls |-> <<[endpoint |-> "companies", sent |-> company_id, reply |-> reply]>>]

----------------------------------------------------------------------------
(* models.py, services/company.py: the companies table.                    *)

\* Company.handle is unique; NULL handles do not collide.
HandleTaken(table, company_id, handle) ==
    /\ handle # None
    /\ \E other \in DOMAIN table : other # company_id /\ table[other].handle = handle

\* the table with the row of company_id set to row
WithRow(table, company_id, row) ==
    [c \in DOMAIN table \cup {company_id} |-> IF c = company_id THEN row ELSE table[c]]

WithoutRow(table, company_id) ==
    [c \in DOMAIN table \ {company_id} |-> table[c]]

\* Company.objects.update_or_create(id=company_id, defaults=data)
upsert_company(table, data) ==
    IF HandleTaken(table, data.id, data.handle)
    THEN [exc |-> "IntegrityError", table |-> table]
    ELSE [exc |-> None,
          table |-> WithRow(table, data.id, [f \in DOMAIN data \ {"id"} |-> data[f]])]

\* Model.save() of an instance loaded earlier: UPDATE of every column where
\* pk = id, and an INSERT when no row was updated.
save(table, company_id, row) ==
    IF HandleTaken(table, company_id, row.handle)
    THEN [exc |-> "IntegrityError", table |-> table]
    ELSE [exc |-> None, table |-> WithRow(table, company_id, row)]

\* the ids whose row differs between two tables
Changed(before, after) ==
    {c \in DOMAIN before \cup DOMAIN after :
        \/ c \notin DOMAIN before
        \/ c \notin DOMAIN after
        \/ before[c] # after[c]}

----------------------------------------------------------------------------
(* services/session.py: the double-cookie JWT session.                     *)

DEBUG == FALSE      \* settings.DEBUG

\* jwt.encode(payload, key, algorithm='HS256'): the token names the key
\* that signed it.
jwt_encode(payload, key) == [key |-> key, payload |-> payload]

NoCookie == [key |-> None, payload |-> [companyId |-> None, type |-> None, iat |-> 0, exp |-> 0]]

SessionToken(company_id, current_time) ==
    jwt_encode([companyId |-> company_id, type |-> "session",
                iat |-> current_time, exp |-> current_time + SESSION_MAX_AGE],
               GENUKA_CLIENT_SECRET)

RefreshToken(company_id, current_time) ==
    jwt_encode([companyId |-> company_id, type |-> "refresh",
                iat |-> current_time, exp |-> current_time + REFRESH_MAX_AGE],
               GENUKA_CLIENT_SECRET)

SetCookie(name, value, max_age) ==
    [name |-> name, value |-> value, max_age |-> max_age, path |-> "/",
     secure |-> ~DEBUG, httponly |-> TRUE, samesite |-> "Lax"]

create_session_one_lifetime(company_id, current_time) ==
    {SetCookie(SESSION_COOKIE_NAME, SessionToken(company_id, current_time), SESSION_MAX_AGE),
     SetCookie(REFRESH_COOKIE_NAME,
               jwt_encode([companyId |-> company_id, type |-> "refresh",
                           iat |-> current_time, exp |-> current_time + SESSION_MAX_AGE],
                          GENUKA_CLIENT_SECRET),
               SESSION_MAX_AGE)}

\* the Set-Cookie headers create_session puts on the response
create_session(company_id, current_time) ==
    {SetCookie(SESSION_COOKIE_NAME, SessionToken(company_id, current_time), SESSION_MAX_AGE),
     SetCookie(REFRESH_COOKIE_NAME, RefreshToken(company_id, current_time), REFRESH_MAX_AGE)}

jwt_decode_unverified(token, key, current_time) ==
    IF token.payload.exp <= current_time
    THEN [exc |-> "ExpiredSignatureError", payload |-> NoCookie.payload]
    ELSE [exc |-> None, payload |-> token.payload]

\* jwt.decode(token, key, algorithms=['HS256']): the signature, then exp
jwt_decode(token, key, current_time) ==
    IF token.key # key THEN [exc |-> "InvalidTokenError", payload |-> NoCookie.payload]
    ELSE IF token.payload.exp <= current_time
    THEN [exc |-> "ExpiredSignatureError", payload |-> NoCookie.payload]
    ELSE [exc |-> None, payload |-> token.payload]

\* verify_jwt: the payload, or None
verify_jwt(token, current_time) ==
    LET d == jwt_decode(token, GENUKA_CLIENT_SECRET, current_time)
    IN  IF d.exc # None THEN [ok |-> FALSE, payload |-> NoCookie.payload]
        ELSE [ok |-> TRUE, payload |-> d.payload]

verify_refresh_token_any_type(cookies, current_time) ==
    LET token == cookies.refresh_session
        v == verify_jwt(token, current_time)
    IN  IF token = NoCookie THEN None
        ELSE IF ~v.ok THEN None
        ELSE v.payload.companyId

verify_refresh_token_from_session_cookie(cookies, current_time) ==
    LET token == IF cookies.refresh_session = NoCookie THEN cookies.session
                 ELSE cookies.refresh_session
        v == verify_jwt(token, current_time)
    IN  IF token = NoCookie THEN None
        ELSE IF ~v.ok THEN None
        ELSE v.payload.companyId

verify_refresh_token(cookies, current_time) ==
    LET token == cookies.refresh_session
        v == verify_jwt(token, current_time)
    IN  IF token = NoCookie THEN None
        ELSE IF ~v.ok \/ v.payload.type # "refresh" THEN None
        ELSE v.payload.companyId

get_current_company_id_until_exp(cookies, current_time) ==
    LET token == cookies.session
        v == verify_jwt(token, current_time - 1)
    IN  IF token = NoCookie THEN None
        ELSE IF ~v.ok \/ v.payload.type # "session" THEN None
        ELSE v.payload.companyId

get_current_company_id(cookies, current_time) ==
    LET token == cookies.session
        v == verify_jwt(token, current_time)
    IN  IF token = NoCookie THEN None
        ELSE IF ~v.ok \/ v.payload.type # "session" THEN None
        ELSE v.payload.companyId

\* the row, or None: [found, row]
get_authenticated_company(cookies, current_time, table) ==
    LET company_id == get_current_company_id(cookies, current_time)
    IN  IF ~Truthy(company_id) THEN [found |-> FALSE, id |-> None]
        ELSE IF company_id \notin DOMAIN table THEN [found |-> FALSE, id |-> None]
        ELSE [found |-> TRUE, id |-> company_id]

is_authenticated(cookies, current_time) ==
    get_current_company_id(cookies, current_time) # None

\* response.delete_cookie(name, path='/'): an expired, empty cookie
DeleteCookie(name) ==
    [name |-> name, value |-> NoCookie, max_age |-> 0, path |-> "/",
     secure |-> FALSE, httponly |-> FALSE, samesite |-> None]

destroy_session_other_path ==
    {[DeleteCookie(SESSION_COOKIE_NAME) EXCEPT !.path = "/api/auth"],
     [DeleteCookie(REFRESH_COOKIE_NAME) EXCEPT !.path = "/api/auth"]}

\* SessionService.destroy_session
destroy_session == {DeleteCookie(SESSION_COOKIE_NAME), DeleteCookie(REFRESH_COOKIE_NAME)}

----------------------------------------------------------------------------
(* services/oauth.py: OAuthService.handle_callback.                        *)

Raised(exc, msg, table, calls) ==
    [exc |-> exc, msg |-> msg, table |-> table, calls |-> calls]

handle_callback(code, company_id, timestamp, hmac_signature, redirect_to, current_time, table, token_reply, info_reply) ==
    LET params == << <<"code", code>>, <<"company_id", company_id>>,
                     <<"redirect_to", redirect_to>>, <<"timestamp", timestamp>> >>
        verified == verify_hmac(params, hmac_signature)
        token == exchange_code_for_token(code, token_reply)
        info == get_company_info(company_id, info_reply)
        token_data == token.data
        company_info == info.data
        expires_in_minutes ==
            Get(token_data, "expires_in_minutes", DEFAULT_EXPIRES_IN_MINUTES)
        token_expires_at == current_time + 60 * expires_in_minutes
        company_data ==
            [id |-> company_id,
             handle |-> Get(company_info, "handle", None),
             name |-> Get(company_info, "name", <<>>),
             description |-> Get(company_info, "description", None),
             logo_url |-> Get(company_info, "logoUrl", None),
             authorization_code |-> code,
             access_token |-> Get(token_data, "access_token", None),
             refresh_token |-> Get(token_data, "refresh_token", None),
             token_expires_at |-> token_expires_at,
             phone |-> Get(Get(company_info, "metadata", <<>>), "contact", None)]
        upsert == upsert_company(table, company_data)
    IN  IF verified = "TypeError" THEN Raised("TypeError", "", table, <<>>)
        ELSE IF verified # "True"
        THEN Raised("ValueError", "Invalid HMAC signature", table, <<>>)
        ELSE IF ~validate_timestamp(timestamp, current_time)
        THEN Raised("ValueError", "Request expired", table, <<>>)
        ELSE IF token.exc # None THEN Raised(token.exc, "", table, token.calls)
        ELSE IF info.exc # None
        THEN Raised(info.exc, "", table, token.calls \o info.calls)
        ELSE IF upsert.exc # None
        THEN Raised(upsert.exc, "", table, token.calls \o info.calls)
        ELSE Raised(None, "", upsert.table, token.calls \o info.calls)

----------------------------------------------------------------------------
(* views.py: the responses.                                                *)

NoLocation == <<>>

Response(status, body, cookies, location) ==
    [status |-> status, body |-> body, cookies |-> cookies, location |-> location]

JsonError(status, error, code) ==
    Response(status, [error |-> error, code |-> code], {}, NoLocation)

\* CallbackView.get: the response, the table afterwards, the provider calls
CallbackView_get(req, current_time, table, token_reply, info_reply) ==
    LET redirect_to == IF req.redirect_to.given THEN req.redirect_to.value
                       ELSE GENUKA_DEFAULT_REDIRECT
        result == handle_callback(req.code, req.company_id, req.timestamp, req.hmac,
                                  redirect_to, current_time, table,
                                  token_reply, info_reply)
    IN  IF ~validate_callback_params(req.code, req.company_id, req.timestamp, req.hmac)
        THEN [response |-> JsonError(400, "Missing required parameters", None),
              table |-> table, calls |-> <<>>]
        ELSE IF result.exc = "ValueError"
        THEN [response |-> JsonError(400, result.msg, None),
              table |-> result.table, calls |-> result.calls]
        ELSE IF result.exc # None
        THEN [response |-> JsonError(500, "Internal server error", None),
              table |-> result.table, calls |-> result.calls]
        ELSE [response |-> Response(302, [error |-> None, code |-> None],
                                    create_session(req.company_id, current_time),
                                    unquote(redirect_to)),
              table |-> result.table, calls |-> result.calls]

\* CheckView.get
CheckView_get(cookies, current_time) ==
    Response(200, [authenticated |-> is_authenticated(cookies, current_time)], {}, NoLocation)

MeView_get_whole_row(cookies, current_time, table) ==
    LET company == get_authenticated_company(cookies, current_time, table)
    IN  IF ~company.found THEN JsonError(401, "Not authenticated", "UNAUTHORIZED")
        ELSE Response(200, table[company.id], {}, NoLocation)

\* MeView.get: the public columns of the authenticated company (the row of
\* the model has no created_at / updated_at)
MeView_get(cookies, current_time, table) ==
    LET company == get_authenticated_company(cookies, current_time, table)
        row == table[company.id]
    IN  IF ~company.found THEN JsonError(401, "Not authenticated", "UNAUTHORIZED")
        ELSE Response(200,
                      [id |-> company.id, handle |-> row.handle, name |-> row.name,
                       description |-> row.description, logo_url |-> row.logo_url,
                       phone |-> row.phone],
                      {}, NoLocation)

\* HomeView.get
HomeView_get(cookies, current_time, table) ==
    LET company == get_authenticated_company(cookies, current_time, table)
        row == table[company.id]
    IN  IF company.found
        THEN Response(200,
                      [message |-> <<"Bienvenue, ">> \o row.name \o <<"!">>, authenticated |-> TRUE,
                       company |-> [id |-> company.id, name |-> row.name,
                                    handle |-> row.handle]],
                      {}, NoLocation)
        ELSE Response(200,
                      [message |-> <<"Bienvenue sur Genuka Django Boilerplate">>,
                       authenticated |-> FALSE,
                       hint |-> "Installez l'app via Genuka pour vous connecter"],
                      {}, NoLocation)

\* LogoutView.post
LogoutView_post ==
    Response(200, [success |-> TRUE, message |-> "Successfully logged out"],
             destroy_session, NoLocation)

has_refresh_token_always(company) == TRUE

\* RefreshView.post, line 320: "if not company.refresh_token" is false
has_refresh_token(company) == Truthy(company.refresh_token)

\* RefreshView.post up to the provider call: the refresh cookie, the row,
\* its refresh token. done: the request ended here with response.
RefreshView_load(cookies, current_time, table) ==
    LET company_id == verify_refresh_token(cookies, current_time)
    IN  IF ~Truthy(company_id)
        THEN [done |-> TRUE, company_id |-> None,
              response |-> JsonError(401, "Invalid or expired refresh token",
                                     "REFRESH_TOKEN_INVALID")]
        ELSE IF company_id \notin DOMAIN table
        THEN [done |-> TRUE, company_id |-> company_id,
              response |-> JsonError(404, "Company not found", "COMPANY_NOT_FOUND")]
        ELSE IF ~has_refresh_token(table[company_id])
        THEN [done |-> TRUE, company_id |-> company_id,
              response |-> JsonError(401,
                  "No refresh token available. Please reinstall the app.",
                  "NO_REFRESH_TOKEN")]
        ELSE [done |-> FALSE, company_id |-> company_id,
              response |-> JsonError(0, None, None)]

refreshed_company_overwrite(company, token_data, token_expires_at) ==
    [company EXCEPT !.access_token = Get(token_data, "access_token", None),
                    !.refresh_token = Get(token_data, "refresh_token", None),
                    !.token_expires_at = token_expires_at]

\* RefreshView.post, lines 336-338: the loaded row with the new tokens
refreshed_company(company, token_data, token_expires_at) ==
    [company EXCEPT !.access_token = Get(token_data, "access_token", None),
                    !.refresh_token =
                        IF Truthy(Get(token_data, "refresh_token", None))
                        THEN Get(token_data, "refresh_token", None)
                        ELSE company.refresh_token,
                    !.token_expires_at = token_expires_at]

RefreshView_save_rereading(company_id, company, current_time, table, reply) ==
    LET token == refresh_access_token(company.refresh_token, reply)
        token_data == token.data
        expires_in_minutes ==
            Get(token_data, "expires_in_minutes", DEFAULT_EXPIRES_IN_MINUTES)
        token_expires_at == current_time + 60 * expires_in_minutes
        fresh == IF company_id \in DOMAIN table THEN table[company_id] ELSE company
        saved == save(table, company_id,
                      refreshed_company(fresh, token_data, token_expires_at))
        failed == JsonError(401, "Failed to refresh session. Please reinstall the app.",
                            "REFRESH_FAILED")
    IN  IF token.exc # None
        THEN [response |-> failed, table |-> table, calls |-> token.calls]
        ELSE IF saved.exc # None
        THEN [response |-> failed, table |-> table, calls |-> token.calls]
        ELSE [response |-> Response(200,
                               [success |-> TRUE,
                                message |-> "Session refreshed successfully"],
                               create_session(company_id, current_time), NoLocation),
              table |-> saved.table, calls |-> token.calls]

\* RefreshView.post from the provider call on: company is the row as it was
\* loaded, table the table as it is now
RefreshView_save(company_id, company, current_time, table, reply) ==
    LET token == refresh_access_token(company.refresh_token, reply)
        token_data == token.data
        expires_in_minutes ==
            Get(token_data, "expires_in_minutes", DEFAULT_EXPIRES_IN_MINUTES)
        token_expires_at == current_time + 60 * expires_in_minutes
        saved == save(table, company_id,
                      refreshed_company(company, token_data, token_expires_at))
        failed == JsonError(401, "Failed to refresh session. Please reinstall the app.",
                            "REFRESH_FAILED")
    IN  IF token.exc # None
        THEN [response |-> failed, table |-> table, calls |-> token.calls]
        ELSE IF saved.exc # None
        THEN [response |-> failed, table |-> table, calls |-> token.calls]
        ELSE [response |-> Response(200,
                               [success |-> TRUE,
                                message |-> "Session refreshed successfully"],
                               create_session(company_id, current_time), NoLocation),
              table |-> saved.table, calls |-> token.calls]

\* WebhookView: the event types with a handler
WEBHOOK_EVENTS == {"company.updated", "company.deleted", "order.created",
                   "order.updated", "product.created", "product.updated",
                   "subscription.created", "subscription.updated",
                   "subscription.cancelled", "payment.succeeded", "payment.failed"}

\* _handle_company_updated: the columns to set
update_data(data) ==
    [k \in DOMAIN data \cap {"name", "description"} |-> data[k]]

Success == Response(200, [success |-> TRUE], {}, NoLocation)

\* WebhookView.post up to the read of the row in update_by_id. done: the
\* request ended here with response and table.
WebhookView_load(req, table) ==
    IF ~req.valid_json
    THEN [done |-> TRUE, response |-> JsonError(400, "Invalid JSON", None), table |-> table]
    ELSE IF ~req.json_object     \* body.get raises AttributeError
    THEN [done |-> TRUE, response |-> JsonError(500, "Failed to process webhook", None),
          table |-> table]
    ELSE IF req.type = "company.deleted"
    THEN [done |-> TRUE, response |-> Success, table |-> WithoutRow(table, req.company_id)]
    ELSE IF req.type = "company.updated" /\ DOMAIN update_data(req.data) # {}
                /\ req.company_id \in DOMAIN table
    THEN [done |-> FALSE, response |-> Success, table |-> table]
    ELSE [done |-> TRUE, response |-> Success, table |-> table]

\* update_by_id from setattr on: company is the row as it was loaded
WebhookView_save(company_id, company, data, table) ==
    LET updated == [f \in DOMAIN company |->
                        IF f \in DOMAIN data THEN data[f] ELSE company[f]]
        saved == save(table, company_id, updated)
    IN  IF saved.exc # None
        THEN [response |-> JsonError(500, "Failed to process webhook", None),
              table |-> table]
        ELSE [response |-> Success, table |-> saved.table]

----------------------------------------------------------------------------
(* The environment: the inputs the requests are drawn from.                *)

CompanyIds == {"c1", "c2"}
Codes == {"k1"}

\* redirect_to as Django hands it over (the query string decoded once)
Redirects == {[given |-> FALSE, value |-> <<>>],
              [given |-> TRUE, value |-> <<"%", "2F", "app">>]}

\* the timestamps a callback can carry at time t: missing, not a number,
\* one second too old, exactly tolerance old, current, in the future
Timestamps(t) == {TsAbsent, TsText,
                  TsInt(t - OAUTH_TIMESTAMP_TOLERANCE - 1),
                  TsInt(t - OAUTH_TIMESTAMP_TOLERANCE),
                  TsInt(t), TsInt(t + 5)}

\* the signature the provider computes for a callback
ProviderHmac(code, company_id, timestamp, redirect_to) ==
    generate_hmac(<< <<"code", code>>, <<"company_id", company_id>>,
                     <<"redirect_to", IF redirect_to.given THEN redirect_to.value
                                      ELSE GENUKA_DEFAULT_REDIRECT>>,
                     <<"timestamp", timestamp>> >>)

\* the hmac a callback can carry: missing, the provider's, the provider's
\* signature of another code (a tampered request), non-ASCII text
Hmacs(code, company_id, timestamp, redirect_to) ==
    {HmacAbsent,
     ProviderHmac(code, company_id, timestamp, redirect_to),
     ProviderHmac("k0", company_id, timestamp, redirect_to),
     HmacNonAscii}

CallbackRequests(t) ==
    UNION {{[code |-> x[1], company_id |-> x[2], timestamp |-> x[3],
             redirect_to |-> x[4], hmac |-> h] :
                h \in Hmacs(x[1], x[2], x[3], x[4])} :
           x \in (Codes \cup {None}) \X (CompanyIds \cup {""}) \X Timestamps(t) \X Redirects}

\* the callbacks the provider sends at time t: signed, current
ProviderCallbacks(t) ==
    {r \in CallbackRequests(t) :
        /\ r.code \in Codes /\ r.company_id \in CompanyIds /\ r.redirect_to.given
        /\ r.timestamp = TsInt(t)
        /\ r.hmac = ProviderHmac(r.code, r.company_id, r.timestamp, r.redirect_to)}

\* the provider's token replies: a full body, a body with its own lifetime,
\* a body without refresh_token; a non-success status; no connection
TokenBodies == {[access_token |-> "a1", refresh_token |-> "r1"],
                [access_token |-> "a2", refresh_token |-> "r2", expires_in_minutes |-> 30],
                [access_token |-> "a2"]}

TokenReplies == {ProviderReply("ok", b) : b \in TokenBodies}
                    \cup {ProviderReply("http_error", <<>>), ProviderReply("unreachable", <<>>)}

\* the provider's company replies
InfoBodies == {[handle |-> "h1", name |-> <<"Acme">>, description |-> "d1",
                logoUrl |-> "l1", metadata |-> [contact |-> "p1"]]}

InfoReplies == {ProviderReply("ok", b) : b \in InfoBodies}
                   \cup {ProviderReply("http_error", <<>>), ProviderReply("unreachable", <<>>)}

\* the instants at which requests arrive
Timeline == <<0, SESSION_MAX_AGE, REFRESH_MAX_AGE, OAUTH_TIMESTAMP_TOLERANCE,
              REFRESH_MAX_AGE + SESSION_MAX_AGE>>


\* the cookies a request can carry in one slot: none, a token some client
\* holds (of either kind), a token signed with another key
Presentable(pairs, t) ==
    {NoCookie}
        \cup {SessionToken(p[1], p[2]) : p \in pairs}
        \cup {RefreshToken(p[1], p[2]) : p \in pairs}
        \cup {jwt_encode(RefreshToken("c1", t).payload, "attacker-key")}

\* the requests to check and to current-tenant, which read the session
\* cookie: any presentable value in it
SessionRequests(pairs, t) ==
    [session : Presentable(pairs, t), refresh_session : {NoCookie}]

\* the requests to refresh, which reads the refresh_session cookie: any
\* presentable value in it, with or without a session cookie
RefreshRequests(pairs, t) ==
    [session : {NoCookie} \cup {SessionToken(p[1], p[2]) : p \in pairs},
     refresh_session : Presentable(pairs, t)]

\* what a browser sends: the cookies of one pair it holds, or none
BrowserRequests(pairs) ==
    {[session |-> NoCookie, refresh_session |-> NoCookie]}
        \cup {[session |-> SessionToken(p[1], p[2]),
                refresh_session |-> RefreshToken(p[1], p[2])] : p \in pairs}

\* webhook bodies
WebhookData == {<<>>, [name |-> <<"Acme2">>], [name |-> <<"Acme2">>, description |-> "d2"]}

\* company.updated with each body, company.deleted, an event whose handler
\* does nothing, an event without handler, an object without type, JSON
\* that is not an object (a list, a number), and a body that is not JSON
WebhookRequests ==
    [valid_json : {TRUE}, json_object : {TRUE}, type : {"company.updated"},
     data : WebhookData, company_id : CompanyIds]
        \cup [valid_json : {TRUE}, json_object : {TRUE},
              type : {"company.deleted", "order.created", "foo.bar", None},
              data : {<<>>}, company_id : CompanyIds]
        \cup {[valid_json |-> TRUE, json_object |-> FALSE, type |-> None,
                data |-> <<>>, company_id |-> None]}
        \cup {[valid_json |-> FALSE, json_object |-> FALSE, type |-> None,
                data |-> <<>>, company_id |-> None]}

----------------------------------------------------------------------------
(* The clients: the credential pairs they hold.                            *)

\* the pair issued now joins the held ones; when there is no room it
\* replaces one of them
KeepPair(pairs, pair, kept) ==
    IF pair \in pairs \/ Cardinality(pairs) < MaxHeld
    THEN kept = pairs \cup {pair}
    ELSE \E old \in pairs : kept = (pairs \ {old}) \cup {pair}

Issued(response, company_id, pairs, t, kept) ==
    IF create_session(company_id, t) \subseteq response.cookies
    THEN KeepPair(pairs, <<company_id, t>>, kept)
    ELSE kept = pairs

----------------------------------------------------------------------------
(* The state machine.                                                      *)

NoRequest == [view |-> "none"]

NoRow == [found |-> FALSE, row |-> <<>>]
Row(table, company_id) ==
    IF company_id \in DOMAIN table THEN [found |-> TRUE, row |-> table[company_id]]
    ELSE NoRow

\* what is observed of a completed request: the request, when it arrived
\* (at) and completed (done), the company it named and the row it read,
\* the response, the provider calls it made, the rows it changed, the row
\* of the company as it was stored when the request wrote or returned
Completed(view, req, at, done, company_id, loaded, response, calls, before, after) ==
    [view |-> view, req |-> req, at |-> at, done |-> done,
     company_id |-> company_id, loaded |-> loaded,
     response |-> response, calls |-> calls, changed |-> Changed(before, after),
     stored |-> Row(before, company_id)]

Workers == 1..NumWorkers

Init ==
    /\ now = 0
    /\ companies = <<>>
    /\ held = {}
    /\ pending = <<>>
    /\ served = 0
    /\ last = NoRequest

\* a request can arrive: the last response has been delivered
Arrives(max) ==
    /\ last = NoRequest
    /\ served < max
    /\ served' = served + 1

\* the workers without a request, and the one a new request gets
FreeWorkers == Workers \ DOMAIN pending
FirstFree == CHOOSE w \in FreeWorkers : \A v \in FreeWorkers : w <= v

Started(w, locals) ==
    [v \in DOMAIN pending \cup {w} |-> IF v = w THEN locals ELSE pending[v]]

Finished(w) == [v \in DOMAIN pending \ {w} |-> pending[v]]

\* time passes, up to a later instant of the timeline
TickOn(timeline) ==
    /\ last = NoRequest
    /\ \E i \in 1..Len(timeline) :
          /\ i <= MaxInstant
          /\ timeline[i] > now
          /\ now' = timeline[i]
    /\ UNCHANGED <<companies, held, pending, served, last>>

Tick == TickOn(Timeline)

\* the client receives the response
Deliver ==
    /\ last # NoRequest
    /\ last' = NoRequest
    /\ UNCHANGED <<now, companies, held, pending, served>>

NoReply == ProviderReply("http_error", <<>>)

\* the provider replies a callback can draw: none when it makes no call
TokenRepliesFor(req) ==
    IF CallbackView_get(req, now, companies, NoReply, NoReply).calls = <<>>
    THEN {NoReply}
    ELSE TokenReplies

InfoRepliesFor(req, token_reply) ==
    IF token_reply.outcome # "ok" THEN {NoReply} ELSE InfoReplies

CallbackFrom_with_replay_cache(requests, token_replies, info_replies, max) ==
    /\ Arrives(max)
    /\ \E req \in requests :
       \E token_reply \in TokenRepliesFor(req) \cap (token_replies \cup {NoReply}) :
       \E info_reply \in InfoRepliesFor(req, token_reply) \cap (info_replies \cup {NoReply}) :
          LET seen == /\ req.company_id \in DOMAIN companies
                      /\ companies[req.company_id].authorization_code = req.code
              r == IF seen
                   THEN [response |-> JsonError(400, "Request already used", None),
                         table |-> companies, calls |-> <<>>]
                   ELSE CallbackView_get(req, now, companies, token_reply, info_reply)
          IN  /\ companies' = r.table
              /\ last' = Completed("callback", req, now, now, req.company_id, NoRow,
                                    r.response, r.calls, companies, r.table)
              /\ Issued(r.response, req.company_id, held, now, held')
    /\ UNCHANGED <<now, pending>>

\* GET /api/auth/callback, the provider answering from the given replies
CallbackFrom(requests, token_replies, info_replies, max) ==
    /\ Arrives(max)
    /\ \E req \in requests :
       \E token_reply \in TokenRepliesFor(req) \cap (token_replies \cup {NoReply}) :
       \E info_reply \in InfoRepliesFor(req, token_reply) \cap (info_replies \cup {NoReply}) :
          LET r == CallbackView_get(req, now, companies, token_reply, info_reply)
          IN  /\ companies' = r.table
              /\ last' = Completed("callback", req, now, now, req.company_id, NoRow,
                                    r.response, r.calls, companies, r.table)
              /\ Issued(r.response, req.company_id, held, now, held')
    /\ UNCHANGED <<now, pending>>

\* GET /api/auth/callback
Callback(requests, max) == CallbackFrom(requests, TokenReplies, InfoReplies, max)

Check_requiring_row(requests, max) ==
    /\ Arrives(max)
    /\ \E req \in requests :
          last' = Completed("check", req, now, now, None, NoRow,
                            Response(200,
                                     [authenticated |->
                                          get_authenticated_company(req, now, companies).found],
                                     {}, NoLocation),
                            <<>>, companies, companies)
    /\ UNCHANGED <<now, companies, held, pending>>

\* GET /api/auth/check
Check(requests, max) ==
    /\ Arrives(max)
    /\ \E req \in requests :
          last' = Completed("check", req, now, now, None, NoRow,
                            CheckView_get(req, now), <<>>, companies, companies)
    /\ UNCHANGED <<now, companies, held, pending>>

\* GET /api/auth/me
Me(requests, max) ==
    /\ Arrives(max)
    /\ \E req \in requests :
          last' = Completed("me", req, now, now, None, NoRow,
                            MeView_get(req, now, companies), <<>>, companies, companies)
    /\ UNCHANGED <<now, companies, held, pending>>

\* GET /
Home(requests, max) ==
    /\ Arrives(max)
    /\ \E req \in requests :
          last' = Completed("home", req, now, now, None, NoRow,
                            HomeView_get(req, now, companies), <<>>, companies, companies)
    /\ UNCHANGED <<now, companies, held, pending>>

\* POST /api/auth/logout
Logout(requests, max) ==
    /\ Arrives(max)
    /\ \E req \in requests :
          last' = Completed("logout", req, now, now, None, NoRow,
                            LogoutView_post, <<>>, companies, companies)
    /\ UNCHANGED <<now, companies, held, pending>>

\* POST /api/auth/refresh, up to the provider call
RefreshLoad(requests, max) ==
    /\ Arrives(max)
    /\ \E req \in requests :
          LET r == RefreshView_load(req, now, companies)
          IN  IF r.done
              THEN /\ last' = Completed("refresh", req, now, now, r.company_id,
                                         Row(companies, r.company_id), r.response,
                                         <<>>, companies, companies)
                   /\ pending' = pending
              ELSE /\ FreeWorkers # {}
                   /\ pending' = Started(FirstFree,
                                         [view |-> "refresh", req |-> req, at |-> now,
                                          company_id |-> r.company_id,
                                          company |-> companies[r.company_id],
                                          data |-> <<>>])
                   /\ last' = last
    /\ UNCHANGED <<now, companies, held>>

\* POST /api/auth/refresh, from the provider's reply on, the provider
\* answering from the given replies
RefreshSaveFrom(token_replies) ==
    /\ last = NoRequest
    /\ \E w \in DOMAIN pending, reply \in token_replies :
          /\ pending[w].view = "refresh"
          /\ LET r == RefreshView_save(pending[w].company_id, pending[w].company,
                                       now, companies, reply)
             IN  /\ companies' = r.table
                 /\ last' = Completed("refresh", pending[w].req, pending[w].at, now,
                                       pending[w].company_id,
                                       [found |-> TRUE, row |-> pending[w].company],
                                       r.response, r.calls, companies, r.table)
                 /\ Issued(r.response, pending[w].company_id, held, now, held')
          /\ pending' = Finished(w)
    /\ UNCHANGED <<now, served>>

\* POST /api/auth/refresh, from the provider's reply on
RefreshSave == RefreshSaveFrom(TokenReplies)

\* POST /api/auth/webhook, up to the read of the row
WebhookLoad(requests, max) ==
    /\ Arrives(max)
    /\ \E req \in requests :
          LET r == WebhookView_load(req, companies)
          IN  IF r.done
              THEN /\ companies' = r.table
                   /\ last' = Completed("webhook", req, now, now, req.company_id,
                                         Row(companies, req.company_id), r.response,
                                         <<>>, companies, r.table)
                   /\ pending' = pending
              ELSE /\ FreeWorkers # {}
                   /\ pending' = Started(FirstFree,
                                         [view |-> "webhook", req |-> req, at |-> now,
                                          company_id |-> req.company_id,
                                          company |-> companies[req.company_id],
                                          data |-> update_data(req.data)])
                   /\ companies' = companies
                   /\ last' = last
    /\ UNCHANGED <<now, held>>

\* POST /api/auth/webhook, the save in update_by_id
WebhookSave ==
    /\ last = NoRequest
    /\ \E w \in DOMAIN pending :
          /\ pending[w].view = "webhook"
          /\ LET r == WebhookView_save(pending[w].company_id, pending[w].company,
                                       pending[w].data, companies)
             IN  /\ companies' = r.table
                 /\ last' = Completed("webhook", pending[w].req, pending[w].at, now,
                                       pending[w].company_id,
                                       [found |-> TRUE, row |-> pending[w].company],
                                       r.response, <<>>, companies, r.table)
          /\ pending' = Finished(w)
    /\ UNCHANGED <<now, held, served>>

\* The whole application, the provider sending well-formed callbacks.
Next ==
    \/ Tick
    \/ Deliver
    \/ Callback(ProviderCallbacks(now), MaxRequests)
    \/ Check(SessionRequests(held, now), MaxRequests)
    \/ Me(SessionRequests(held, now), MaxRequests)
    \/ Home(SessionRequests(held, now), MaxRequests)
    \/ Logout(BrowserRequests(held), MaxRequests)
    \/ RefreshLoad(RefreshRequests(held, now), MaxRequests)
    \/ RefreshSave
    \/ WebhookLoad(WebhookRequests, MaxRequests)
    \/ WebhookSave

Spec == Init /\ [][Next]_vars

\* The callback endpoint alone, under every callback of CallbackRequests.
NextCallback ==
    \/ Tick
    \/ Deliver
    \/ Callback(CallbackRequests(now), MaxCallbacks)

SpecCallback == Init /\ [][NextCallback]_vars

\* One company through its life, requests overlapping: its callbacks, its
\* browser's requests, the webhooks that update and delete it.
LifecycleCallbacks(t) == {r \in ProviderCallbacks(t) : r.company_id = "c1"}

LifecycleWebhooks ==
    {r \in WebhookRequests :
        /\ r.company_id = "c1"
        /\ \/ r.type = "company.deleted"
           \/ r.type = "company.updated" /\ DOMAIN r.data = {"name"}}

\* the provider in the life of one company: tokens, rotated tokens, a
\* non-success status; the company's description
LifecycleTokenReplies ==
    {r \in TokenReplies : r.outcome = "http_error"
                            \/ (r.outcome = "ok" /\ "refresh_token" \in DOMAIN r.body)}

LifecycleInfoReplies == {r \in InfoReplies : r.outcome = "ok"}

\* the instants in the life of one company: within the lifetime of a
\* session token, at its end, at the end of the refresh token's
LifecycleTimeline == <<0, OAUTH_TIMESTAMP_TOLERANCE, SESSION_MAX_AGE, REFRESH_MAX_AGE>>

NextLifecycle ==
    \/ TickOn(LifecycleTimeline)
    \/ Deliver
    \/ CallbackFrom(LifecycleCallbacks(now), LifecycleTokenReplies,
                    LifecycleInfoReplies, MaxLifecycleRequests)
    \/ Check(BrowserRequests(held), MaxLifecycleRequests)
    \/ Logout(BrowserRequests(held), MaxLifecycleRequests)
    \/ RefreshLoad(BrowserRequests(held), MaxLifecycleRequests)
    \/ RefreshSaveFrom(LifecycleTokenReplies)
    \/ WebhookLoad(LifecycleWebhooks, MaxLifecycleRequests)
    \/ WebhookSave

SpecLifecycle == Init /\ [][NextLifecycle]_vars

\* One installed company under overlapping refreshes and company.updated
\* webhooks. The provider's tokens are told apart by where they come from:
\* a1/r1 from the exchange, a2/r2 from a refresh.
RaceTokenReplies ==
    {r \in TokenReplies :
        r.outcome = "ok" /\ r.body = [access_token |-> "a1", refresh_token |-> "r1"]}

RaceRefreshReplies ==
    {r \in TokenReplies :
        r.outcome = "http_error" \/ (r.outcome = "ok" /\ r.body.access_token = "a2")}

RaceWebhooks == {r \in LifecycleWebhooks : r.type = "company.updated"}

NextRace ==
    \/ Deliver
    \/ CallbackFrom(LifecycleCallbacks(now), RaceTokenReplies, LifecycleInfoReplies,
                    MaxRaceRequests)
    \/ RefreshLoad(BrowserRequests(held), MaxRaceRequests)
    \/ RefreshSaveFrom(RaceRefreshReplies)
    \/ WebhookLoad(RaceWebhooks, MaxRaceRequests)
    \/ WebhookSave

SpecRace == Init /\ [][NextRace]_vars

\* One callback, as the provider signed it at instant 0, submitted again
\* and again: at once, when its age is the tolerance, and one second later.
ReplayCallbacks == LifecycleCallbacks(0)

ReplayTimeline == <<0, OAUTH_TIMESTAMP_TOLERANCE, OAUTH_TIMESTAMP_TOLERANCE + 1>>

NextReplay ==
    \/ TickOn(ReplayTimeline)
    \/ Deliver
    \/ CallbackFrom(ReplayCallbacks, LifecycleTokenReplies, LifecycleInfoReplies,
                    MaxReplays)

SpecReplay == Init /\ [][NextReplay]_vars

\* The signer alone: a dict over the four signed keys, in any insertion
\* order, is signed and the signature verified against it.
SignMappings ==
    {<< <<"code", code>>, <<"company_id", company_id>>,
        <<"redirect_to", redirect_to>>, <<"timestamp", timestamp>> >> :
        code \in {"k1", ""}, company_id \in CompanyIds,
        redirect_to \in {GENUKA_DEFAULT_REDIRECT, <<"%", "2F", "app">>},
        timestamp \in {TsInt(0), TsText}}

\* the dicts with the items of one mapping, in each insertion order
Orders(items) ==
    {o \in [1..Len(items) -> Range(items)] : Range(o) = Range(items)}

InitSign ==
    /\ now = 0
    /\ companies = <<>>
    /\ held = {}
    /\ pending = <<>>
    /\ served = 0
    /\ \E items \in SignMappings :
          \E params \in Orders(items) : last = [view |-> "params", params |-> params]

\* generate_hmac(params), then verify_hmac(params, signature)
Sign ==
    /\ last.view = "params"
    /\ LET signature == generate_hmac(last.params)
       IN  last' = [view |-> "signed", params |-> last.params,
                    signature |-> signature,
                    verified |-> verify_hmac(last.params, signature)]
    /\ UNCHANGED <<now, companies, held, pending, served>>

NextSign == Sign

SpecSign == InitSign /\ [][NextSign]_vars

\* The replay guard alone: at one reading of the clock it is given a
\* timestamp of each age up to MaxAge, one from the future, one that is
\* not a number.
GuardTimestamps(t) == {TsInt(t - age) : age \in -1..MaxAge} \cup {TsText}

InitGuard ==
    /\ now \in {MaxAge, SESSION_MAX_AGE}
    /\ companies = <<>>
    /\ held = {}
    /\ pending = <<>>
    /\ served = 0
    /\ \E timestamp \in GuardTimestamps(now) :
          last = [view |-> "timestamp", timestamp |-> timestamp]

\* validate_timestamp(timestamp)
Validate ==
    /\ last.view = "timestamp"
    /\ last' = [view |-> "validated", timestamp |-> last.timestamp,
                 current_time |-> now,
                 valid |-> validate_timestamp(last.timestamp, now)]
    /\ UNCHANGED <<now, companies, held, pending, served>>

NextGuard == Validate

SpecGuard == InitGuard /\ [][NextGuard]_vars

----------------------------------------------------------------------------
(* What the claims speak of.                                               *)

CallbackDone == last.view = "callback"
RefreshDone == last.view = "refresh"

\* all four required parameters are present and non-empty
ParamsPresent(req) ==
    /\ req.code \notin {None, ""}
    /\ req.company_id \notin {None, ""}
    /\ req.timestamp.form \in {"int", "text"}
    /\ req.hmac.form \in {"hex", "nonascii"}

\* the received signature equals the HMAC recomputed over code, company_id,
\* redirect_to and timestamp
SignatureMatches(req) ==
    req.hmac = ProviderHmac(req.code, req.company_id, req.timestamp, req.redirect_to)

\* the age of the callback's timestamp when it arrived
Age(obs) == obs.at - obs.req.timestamp.val

\* no provider call was made, no row changed, no cookie set
NoEffect(obs) ==
    /\ obs.calls = <<>>
    /\ obs.changed = {}
    /\ obs.response.cookies = {}

\* the provider's token exchange succeeded in the request
ExchangeSucceeded(obs) ==
    /\ Len(obs.calls) >= 1
    /\ obs.calls[1].endpoint = "oauth/token"
    /\ obs.calls[1].reply.outcome = "ok"

\* token is signed with the application's secret, is of the kind and has
\* not expired at time t
ValidToken(token, kind, t) ==
    /\ token.key = GENUKA_CLIENT_SECRET
    /\ token.payload.type = kind
    /\ token.payload.exp > t

----------------------------------------------------------------------------
(* C1. Every callback whose received signature differs from the recomputed *)
(* HMAC ends with HTTP 400, without a provider call, a changed row or a    *)
(* cookie. The code answers 500 when the signature is not ASCII.           *)
C1_MismatchRejected400 ==
    (CallbackDone /\ ~SignatureMatches(last.req))
        => (last.response.status = 400 /\ NoEffect(last))

(* C2. A callback whose signature verifies and whose timestamp is older    *)
(* than the tolerance gets HTTP 400; no token exchange, no row created or  *)
(* modified, no session or refresh cookie.                                 *)
C2_StaleRejected ==
    (CallbackDone /\ SignatureMatches(last.req) /\ last.req.timestamp.form = "int"
        /\ Age(last) > OAUTH_TIMESTAMP_TOLERANCE)
        => (last.response.status = 400 /\ NoEffect(last))

C2_Witness ==
    /\ CallbackDone /\ ParamsPresent(last.req) /\ SignatureMatches(last.req)
    /\ last.req.timestamp.form = "int" /\ Age(last) > OAUTH_TIMESTAMP_TOLERANCE
    /\ last.response.status = 400
    /\ last.response.body.error = "Request expired"
    /\ DOMAIN companies # {}

(* C3. A correctly signed callback whose timestamp lies in the future      *)
(* (now - timestamp < 0) is rejected before the token exchange. The code   *)
(* accepts it: validate_timestamp only bounds the age from above.          *)
C3_FutureRejected ==
    (CallbackDone /\ ParamsPresent(last.req) /\ SignatureMatches(last.req)
        /\ last.req.timestamp.form = "int" /\ Age(last) < 0)
        => (last.response.status = 400 /\ last.calls = <<>>)

(* C4. A token of one kind is never accepted where the other is required:  *)
(* a valid refresh token in the session cookie leaves check unauthenticated*)
(* and current-tenant at 401; a valid session token in the refresh_session *)
(* cookie leaves refresh at 401 REFRESH_TOKEN_INVALID.                     *)
C4_KindIsolation ==
    /\ (last.view = "check" /\ ValidToken(last.req.session, "refresh", last.at))
          => last.response.body.authenticated = FALSE
    /\ (last.view = "me" /\ ValidToken(last.req.session, "refresh", last.at))
          => (last.response.status = 401 /\ last.response.body.code = "UNAUTHORIZED")
    /\ (RefreshDone /\ ValidToken(last.req.refresh_session, "session", last.at))
          => (last.response.status = 401
              /\ last.response.body.code = "REFRESH_TOKEN_INVALID"
              /\ NoEffect(last))

C4_Witness ==
    /\ RefreshDone
    /\ ValidToken(last.req.refresh_session, "session", last.at)
    /\ last.req.refresh_session.payload.companyId \in DOMAIN companies
    /\ last.response.status = 401

(* C5. A callback in which code, company_id, timestamp or hmac is absent   *)
(* or empty gets HTTP 400 "Missing required parameters", whatever its      *)
(* signature; no provider call, no row changed, no cookie.                 *)
C5_MissingParamsRejected ==
    (CallbackDone /\ ~ParamsPresent(last.req))
        => (/\ last.response.status = 400
            /\ last.response.body.error = "Missing required parameters"
            /\ NoEffect(last))

C5_Witness ==
    /\ CallbackDone
    /\ last.req.company_id = "" /\ last.req.code \in Codes
    /\ SignatureMatches(last.req)
    /\ last.req.timestamp = TsInt(last.at)
    /\ last.response.status = 400

(* C6. After a callback with all parameters, a matching signature and a    *)
(* fresh timestamp whose token exchange succeeded, the row of company_id   *)
(* holds the code, the exchanged tokens and expiry now + expires_in, and   *)
(* the response is a redirect with both cookies for that company. The code *)
(* answers 500 when the company fetch raises or the handle is taken.       *)
C6_ValidCallbackInstalls ==
    (CallbackDone /\ ParamsPresent(last.req) /\ SignatureMatches(last.req)
        /\ last.req.timestamp.form = "int"
        /\ Age(last) >= 0 /\ Age(last) <= OAUTH_TIMESTAMP_TOLERANCE
        /\ ExchangeSucceeded(last))
        => LET id == last.req.company_id
               body == last.calls[1].reply.body
           IN  /\ id \in DOMAIN companies
               /\ companies[id].authorization_code = last.req.code
               /\ companies[id].access_token = Get(body, "access_token", None)
               /\ companies[id].refresh_token = Get(body, "refresh_token", None)
               /\ companies[id].token_expires_at =
                      last.done + 60 * Get(body, "expires_in_minutes",
                                           DEFAULT_EXPIRES_IN_MINUTES)
               /\ last.response.status = 302
               /\ last.response.cookies =
                      {SetCookie(SESSION_COOKIE_NAME, SessionToken(id, last.done),
                                 SESSION_MAX_AGE),
                       SetCookie(REFRESH_COOKIE_NAME, RefreshToken(id, last.done),
                                 REFRESH_MAX_AGE)}

(* C7. Once the token exchange has succeeded in a callback, the request    *)
(* never ends in an error response. The code answers 500 when the company  *)
(* fetch raises or the upsert violates the unique handle.                  *)
C7_NoFailureAfterExchange ==
    (CallbackDone /\ ExchangeSucceeded(last))
        => (last.response.status = 302 /\ last.changed = {last.req.company_id})

(* C8. A refresh with a valid refresh cookie for an existing company whose *)
(* stored refresh_token is null or empty gets 401 NO_REFRESH_TOKEN; no     *)
(* provider call, no row changed, no cookie.                               *)
C8_NoRefreshToken ==
    (RefreshDone /\ ValidToken(last.req.refresh_session, "refresh", last.at)
        /\ last.loaded.found /\ last.loaded.row.refresh_token \in {None, ""})
        => (/\ last.response.status = 401
            /\ last.response.body.code = "NO_REFRESH_TOKEN"
            /\ NoEffect(last))

C8_Witness ==
    /\ RefreshDone /\ ValidToken(last.req.refresh_session, "refresh", last.at)
    /\ last.loaded.found /\ last.loaded.row.refresh_token = None
    /\ last.response.body.code = "NO_REFRESH_TOKEN"

(* C9. A refresh without a valid refresh-kind token in the refresh_session *)
(* cookie (also one with only a valid session cookie) gets 401             *)
(* REFRESH_TOKEN_INVALID; no provider call, no row changed, no cookie.     *)
C9_RefreshNeedsRefreshToken ==
    (RefreshDone /\ ~ValidToken(last.req.refresh_session, "refresh", last.at))
        => (/\ last.response.status = 401
            /\ last.response.body.code = "REFRESH_TOKEN_INVALID"
            /\ NoEffect(last))

C9_Witness ==
    /\ RefreshDone
    /\ last.req.refresh_session = NoCookie
    /\ ValidToken(last.req.session, "session", last.at)
    /\ last.req.session.payload.companyId \in DOMAIN companies
    /\ last.response.body.code = "REFRESH_TOKEN_INVALID"

\* the refresh request succeeded: the provider's reply, the row afterwards
RefreshSucceeded == RefreshDone /\ last.response.status = 200

(* C10, as claimed. After a successful refresh for T the stored            *)
(* access_token and refresh_token are the ones the provider returned in    *)
(* that request, token_expires_at is now + expires_in_minutes, and both    *)
(* cookies are reissued for T.                                             *)
C10_StoresReturnedTokens ==
    RefreshSucceeded
        => LET id == last.company_id
               body == last.calls[1].reply.body
           IN  /\ id \in DOMAIN companies
               /\ companies[id].access_token = Get(body, "access_token", None)
               /\ companies[id].refresh_token = Get(body, "refresh_token", None)
               /\ companies[id].token_expires_at =
                      last.done + 60 * Get(body, "expires_in_minutes",
                                           DEFAULT_EXPIRES_IN_MINUTES)
               /\ last.response.cookies =
                      {SetCookie(SESSION_COOKIE_NAME, SessionToken(id, last.done),
                                 SESSION_MAX_AGE),
                       SetCookie(REFRESH_COOKIE_NAME, RefreshToken(id, last.done),
                                 REFRESH_MAX_AGE)}

(* C10, amended. After a successful refresh for T the stored access_token  *)
(* is the one the provider returned; the stored refresh_token is the       *)
(* returned one when it is non-empty and otherwise the one the request     *)
(* read from T's row; token_expires_at is now + expires_in_minutes; both   *)
(* cookies are reissued for T.                                             *)
C10_StoresReturnedOrKeptTokens ==
    RefreshSucceeded
        => LET id == last.company_id
               body == last.calls[1].reply.body
               returned == Get(body, "refresh_token", None)
           IN  /\ id \in DOMAIN companies
               /\ companies[id].access_token = Get(body, "access_token", None)
               /\ companies[id].refresh_token =
                      IF returned \notin {None, ""} THEN returned
                      ELSE last.loaded.row.refresh_token
               /\ companies[id].token_expires_at =
                      last.done + 60 * Get(body, "expires_in_minutes",
                                           DEFAULT_EXPIRES_IN_MINUTES)
               /\ last.response.cookies =
                      {SetCookie(SESSION_COOKIE_NAME, SessionToken(id, last.done),
                                 SESSION_MAX_AGE),
                       SetCookie(REFRESH_COOKIE_NAME, RefreshToken(id, last.done),
                                 REFRESH_MAX_AGE)}

C10_Witness ==
    /\ RefreshSucceeded
    /\ "refresh_token" \notin DOMAIN last.calls[1].reply.body
    /\ companies[last.company_id].refresh_token = last.loaded.row.refresh_token
    /\ companies[last.company_id].access_token # last.loaded.row.access_token

----------------------------------------------------------------------------
\* the response sets the session and the refresh_session cookie, both
\* naming company_id
BothCookiesFor(response, company_id) ==
    /\ {c.name : c \in response.cookies} = {SESSION_COOKIE_NAME, REFRESH_COOKIE_NAME}
    /\ \A c \in response.cookies :
          c.max_age > 0 /\ c.value.payload.companyId = company_id

\* the request called the provider's refresh endpoint and the call failed
RefreshCallFailed(obs) ==
    /\ Len(obs.calls) >= 1
    /\ obs.calls[1].endpoint = "oauth/refresh"
    /\ obs.calls[1].reply.outcome # "ok"

(* C11. Every refresh request ends either in success with both cookies     *)
(* reissued, or in an error response with status 401 or 404 that sets no   *)
(* cookie and leaves the table unchanged; a failed provider call gives 401 *)
(* and leaves the stored tokens and expiry as they were.                   *)
C11_RefreshOutcomes ==
    RefreshDone
        => /\ \/ /\ last.response.status = 200
                 /\ BothCookiesFor(last.response, last.company_id)
              \/ /\ last.response.status \in {401, 404}
                 /\ last.response.cookies = {}
                 /\ last.changed = {}
           /\ RefreshCallFailed(last)
                 => (last.response.status = 401 /\ last.changed = {}
                     /\ last.response.cookies = {})

C11_Witness ==
    /\ RefreshDone /\ RefreshCallFailed(last)
    /\ last.response.body.code = "REFRESH_FAILED"
    /\ last.company_id \in DOMAIN companies
    /\ companies[last.company_id] = last.loaded.row

\* the callback called the provider's token endpoint and the call failed
ExchangeFailed(obs) ==
    /\ Len(obs.calls) >= 1
    /\ obs.calls[1].endpoint = "oauth/token"
    /\ obs.calls[1].reply.outcome # "ok"

(* C12. When the provider's token exchange fails in an otherwise valid     *)
(* callback, the callback ends in an error response, no row is created or  *)
(* modified, no cookie is set and the company fetch is not attempted.      *)
C12_ExchangeFailureNoEffect ==
    (CallbackDone /\ ExchangeFailed(last))
        => /\ last.response.status >= 400
           /\ last.changed = {}
           /\ last.response.cookies = {}
           /\ Len(last.calls) = 1

C12_Witness ==
    /\ CallbackDone /\ ExchangeFailed(last)
    /\ last.calls[1].reply.outcome = "http_error"
    /\ last.response.status = 500
    /\ last.req.company_id \in DOMAIN companies

\* the callback's company fetch was made and failed
InfoFetchFailed(obs) ==
    /\ Len(obs.calls) = 2
    /\ obs.calls[2].endpoint = "companies"
    /\ obs.calls[2].reply.outcome # "ok"

(* C13. A failure of the company fetch never fails the callback: after a   *)
(* successful exchange the row is upserted with the name synthesized from  *)
(* the company id and both cookies are issued. The code answers 500 when   *)
(* the provider cannot be reached for the company fetch.                   *)
C13_InfoFailureDegrades ==
    (CallbackDone /\ ExchangeSucceeded(last) /\ InfoFetchFailed(last))
        => LET id == last.req.company_id
           IN  /\ last.response.status = 302
               /\ BothCookiesFor(last.response, id)
               /\ id \in DOMAIN companies
               /\ companies[id].name = <<"Company ", id>>

(* C14. In every interleaving a row comes into existence only in a         *)
(* successful callback for its id, and goes out of existence only in a     *)
(* company.deleted webhook for its id: no refresh and no other webhook     *)
(* creates a row. In the code the save() of a refresh, or of a             *)
(* company.updated webhook, that read the row before a deletion inserts    *)
(* the row again.                                                          *)
C14_RowsOnlyByCallbackAndDeletion ==
    [][/\ \A c \in DOMAIN companies' \ DOMAIN companies :
             /\ last'.view = "callback"
             /\ last'.response.status = 302
             /\ last'.req.company_id = c
       /\ \A c \in DOMAIN companies \ DOMAIN companies' :
             /\ last'.view = "webhook"
             /\ last'.req.type = "company.deleted"
             /\ last'.req.company_id = c]_vars

(* C15. Sessions cannot be revoked server-side: the session check accepts  *)
(* a session token signed with the secret at every time before its         *)
(* expires_at, whatever logout, refresh, callback or deletion of its       *)
(* company came in between, and accepts nothing else.                      *)
C15_SessionsNotRevocable ==
    last.view = "check"
        => (last.response.body.authenticated
                = ValidToken(last.req.session, "session", last.at))

\* a session token is accepted after time has passed and its company has
\* been deleted
C15_Witness ==
    /\ last.view = "check"
    /\ last.response.body.authenticated = TRUE
    /\ last.at > last.req.session.payload.iat
    /\ last.req.session.payload.companyId \notin DOMAIN companies

\* the response of a callback or a refresh issues credentials
Issuance == last.view \in {"callback", "refresh"} /\ last.response.cookies # {}

(* C16. Every issuance sets exactly two cookies, session and               *)
(* refresh_session, holding two separate tokens for the same company id    *)
(* with the same issued_at: kind session expiring 7 hours later, kind      *)
(* refresh expiring 30 days later, each cookie's max-age the lifetime of   *)
(* its own token, so that the refresh token outlives the session token.    *)
C16_TwoTokensPerIssuance ==
    Issuance
        => \E s, r \in last.response.cookies :
              /\ last.response.cookies = {s, r}
              /\ s.name = "session" /\ r.name = "refresh_session"
              /\ s.value # r.value
              /\ s.value.payload.companyId = last.company_id
              /\ r.value.payload.companyId = last.company_id
              /\ s.value.payload.type = "session"
              /\ r.value.payload.type = "refresh"
              /\ s.value.payload.iat = last.done
              /\ r.value.payload.iat = last.done
              /\ s.value.payload.exp = last.done + 7 * 60 * 60
              /\ r.value.payload.exp = last.done + 30 * 24 * 60 * 60
              /\ s.max_age = s.value.payload.exp - s.value.payload.iat
              /\ r.max_age = r.value.payload.exp - r.value.payload.iat
              /\ s.value.payload.exp < r.value.payload.exp

\* credentials are reissued in the interval: the refresh token of a pair
\* is accepted when the session token of the same pair has expired
C16_Witness ==
    /\ Issuance /\ RefreshDone
    /\ last.req.session.key = GENUKA_CLIENT_SECRET
    /\ last.req.session.payload.iat = last.req.refresh_session.payload.iat
    /\ last.req.session.payload.companyId = last.req.refresh_session.payload.companyId
    /\ last.req.session.payload.exp <= last.at
    /\ last.req.refresh_session.payload.exp > last.at

\* the secrets the server holds: the client secret, and the authorization
\* code and provider tokens of every row, and of the row the request read
Secrets ==
    LET rows == {companies[c] : c \in DOMAIN companies}
                    \cup (IF last.loaded.found THEN {last.loaded.row} ELSE {})
    IN  ({GENUKA_CLIENT_SECRET}
            \cup UNION {{row.access_token, row.refresh_token, row.authorization_code} :
                           row \in rows}) \ {None, ""}

\* the fields a response body may have, and those of the company in the
\* body of home
PublicFields ==
    {"error", "code", "success", "message", "authenticated", "hint", "company",
     "id", "handle", "name", "description", "logo_url", "phone"}

\* the texts in the body of a response
BodyTexts(view, body) ==
    {body[k] : k \in DOMAIN body \cap {"error", "code", "hint", "id", "handle",
                                        "description", "logo_url", "phone"}}
        \cup (IF "name" \in DOMAIN body THEN Range(body.name) ELSE {})
        \cup (IF "message" \in DOMAIN body
              THEN IF view = "home" THEN Range(body.message) ELSE {body.message}
              ELSE {})
        \cup (IF "company" \in DOMAIN body
              THEN {body.company.id, body.company.handle} \cup Range(body.company.name)
              ELSE {})

(* C17. No response of callback, check, refresh, current-tenant, logout,   *)
(* webhook or home, success or error, contains a provider access token,    *)
(* refresh token or authorization code, or the client secret: not in the   *)
(* body, the Location or the claims of a cookie; the body of               *)
(* current-tenant has only the public fields.                              *)
C17_NoSecretsInResponses ==
    last # NoRequest
        => /\ DOMAIN last.response.body \subseteq PublicFields
           /\ "company" \in DOMAIN last.response.body
                 => DOMAIN last.response.body.company = {"id", "name", "handle"}
           /\ BodyTexts(last.view, last.response.body) \cap Secrets = {}
           /\ Range(last.response.location) \cap Secrets = {}
           /\ \A c \in last.response.cookies :
                 /\ DOMAIN c.value.payload = {"companyId", "type", "iat", "exp"}
                 /\ c.value.payload.companyId \notin Secrets
                 /\ c.value.payload.type \notin Secrets
           /\ (last.view = "me" /\ last.response.status = 200)
                 => DOMAIN last.response.body
                        = {"id", "handle", "name", "description", "logo_url", "phone"}

\* current-tenant answers for a company whose row holds provider tokens
C17_Witness ==
    /\ last.view = "me" /\ last.response.status = 200
    /\ last.response.body.id \in DOMAIN companies
    /\ companies[last.response.body.id].access_token \in Secrets
    /\ companies[last.response.body.id].refresh_token \in Secrets

(* C18. A company.updated webhook for an existing company T whose data     *)
(* has a name sets T's name to it (and T's description when data has       *)
(* one), answers success, and changes no other field of T and no other     *)
(* row; when T does not exist no row is created. In the code the save()    *)
(* of update_by_id writes every column of the copy it read earlier: it     *)
(* puts back the tokens a refresh replaced in between, and inserts the row *)
(* again after a deletion in between.                                      *)
C18_UpdateFrame ==
    [][(/\ last'.view = "webhook"
        /\ last'.req.type = "company.updated"
        /\ "name" \in DOMAIN last'.req.data)
        => LET id == last'.req.company_id
               data == last'.req.data
           IN  IF id \in DOMAIN companies
               THEN /\ last'.response = Success
                    /\ DOMAIN companies' = DOMAIN companies
                    /\ companies'[id].name = data.name
                    /\ companies'[id].description =
                           IF "description" \in DOMAIN data THEN data.description
                           ELSE companies[id].description
                    /\ \A f \in DOMAIN companies[id] \ {"name", "description"} :
                           companies'[id][f] = companies[id][f]
                    /\ \A c \in DOMAIN companies \ {id} : companies'[c] = companies[c]
               ELSE companies' = companies]_vars

(* C19. A webhook with a parseable body whose type is not in the handler   *)
(* table is ignored without error: 200 with success true, the table        *)
(* unchanged. The code answers 500 when the parsed body is not an object.  *)
C19_UnknownEventIgnored ==
    (last.view = "webhook" /\ last.req.valid_json /\ last.req.type \notin WEBHOOK_EVENTS)
        => (last.response = Success /\ last.changed = {})

\* the table without the rows of the other companies
Own(table, company_id) == [c \in DOMAIN table \cap {company_id} |-> table[c]]

\* the provider's n-th reply to the request observed, if it called n times
ReplyOf(obs, n) == IF Len(obs.calls) >= n THEN obs.calls[n].reply ELSE NoReply

(* C20. Requests for different companies never contend: a callback,        *)
(* refresh or webhook for T leaves the row of every other company          *)
(* unchanged, and the outcome of a callback for T (its response and the    *)
(* row of T afterwards) is the one it has when T's is the only row. In the *)
(* code the unique handle makes the callback for T fail when the row of    *)
(* another company holds the handle the provider reports for T.            *)
C20_TenantsDoNotContend ==
    [][last'.view \in {"callback", "refresh", "webhook"}
        => LET id == last'.company_id
           IN  /\ \A c \in (DOMAIN companies \cup DOMAIN companies') \ {id} :
                     /\ c \in DOMAIN companies /\ c \in DOMAIN companies'
                     /\ companies'[c] = companies[c]
               /\ last'.view = "callback"
                     => LET alone == CallbackView_get(last'.req, now, Own(companies, id),
                                                      ReplyOf(last', 1), ReplyOf(last', 2))
                        IN  /\ last'.response = alone.response
                            /\ Own(companies', id) = Own(alone.table, id)]_vars

----------------------------------------------------------------------------
(* C21. Refresh requests for one tenant are not mutually excluded: a       *)
(* refresh calls the provider with the refresh token it read, also when    *)
(* another refresh has read the same token and stored new ones since, and  *)
(* when it succeeds the tenant's row is the row it read with its own new   *)
(* tokens, whatever was stored in between (last write wins).               *)
C21_LastWriteWins ==
    RefreshSucceeded
        => LET id == last.company_id
               read == last.loaded.row
               body == last.calls[1].reply.body
               returned == Get(body, "refresh_token", None)
           IN  /\ last.calls[1].sent = read.refresh_token
               /\ id \in DOMAIN companies
               /\ companies[id] =
                      [read EXCEPT
                          !.access_token = Get(body, "access_token", None),
                          !.refresh_token =
                              IF returned \notin {None, ""} THEN returned
                              ELSE read.refresh_token,
                          !.token_expires_at =
                              last.done + 60 * Get(body, "expires_in_minutes",
                                                   DEFAULT_EXPIRES_IN_MINUTES)]

\* two refreshes read r1; the first stored a2/r2, the second then called
\* the provider with r1 and stored its own tokens over them
C21_Witness ==
    /\ RefreshSucceeded
    /\ last.loaded.row.access_token = "a1"
    /\ last.calls[1].sent = "r1"
    /\ last.stored.found
    /\ last.stored.row.access_token = "a2"
    /\ last.stored.row.refresh_token = "r2"
    /\ companies[last.company_id].refresh_token = "r1"

----------------------------------------------------------------------------
(* C22. The callback is guarded by a replay window, not a replay cache: a  *)
(* callback with a matching signature whose age is within the tolerance    *)
(* has its code exchanged again, also when the row already holds that      *)
(* code, and when the exchange and the company fetch succeed the row is    *)
(* upserted with the new tokens and the response redirects with cookies;   *)
(* once its age exceeds the tolerance it gets HTTP 400 without effect.     *)
C22_ReplayWindow ==
    (CallbackDone /\ ParamsPresent(last.req) /\ SignatureMatches(last.req)
        /\ last.req.timestamp.form = "int" /\ Age(last) >= 0)
        => IF Age(last) <= OAUTH_TIMESTAMP_TOLERANCE
           THEN /\ Len(last.calls) >= 1
                /\ last.calls[1].endpoint = "oauth/token"
                /\ last.calls[1].sent = last.req.code
                /\ (ExchangeSucceeded(last) /\ ~InfoFetchFailed(last))
                      => LET id == last.req.company_id
                             body == last.calls[1].reply.body
                         IN  /\ Len(last.calls) = 2
                             /\ id \in DOMAIN companies
                             /\ companies[id].authorization_code = last.req.code
                             /\ companies[id].access_token = body.access_token
                             /\ companies[id].token_expires_at =
                                    last.done + 60 * Get(body, "expires_in_minutes",
                                                         DEFAULT_EXPIRES_IN_MINUTES)
                             /\ last.response.status = 302
                             /\ BothCookiesFor(last.response, id)
           ELSE /\ last.response.status = 400
                /\ last.response.body.error = "Request expired"
                /\ NoEffect(last)

\* the callback whose code the row already holds is submitted again when
\* its age is the tolerance: exchange, company fetch, upsert, redirect
C22_Witness ==
    /\ CallbackDone /\ SignatureMatches(last.req)
    /\ Age(last) = OAUTH_TIMESTAMP_TOLERANCE
    /\ last.stored.found
    /\ last.stored.row.authorization_code = last.req.code
    /\ Len(last.calls) = 2
    /\ last.changed = {last.req.company_id}
    /\ last.response.status = 302

----------------------------------------------------------------------------
(* C23. Logout always answers success and expires the session and the      *)
(* refresh_session cookie, each at the path create_session sets it at,     *)
(* whatever cookies the request carried; it reads no row, calls no         *)
(* provider and changes no row.                                            *)
C23_LogoutFrame ==
    last.view = "logout"
        => /\ last.response.status = 200
           /\ last.response.body.success
           /\ {c.name : c \in last.response.cookies} =
                  {SESSION_COOKIE_NAME, REFRESH_COOKIE_NAME}
           /\ \A c \in last.response.cookies :
                  /\ c.max_age = 0
                  /\ c.value = NoCookie
                  /\ \A issued \in create_session("c1", last.at) :
                         issued.name = c.name => issued.path = c.path
           /\ last.loaded = NoRow
           /\ last.calls = <<>>
           /\ last.changed = {}

\* a logout without cookies while a company is installed
C23_Witness ==
    /\ last.view = "logout"
    /\ last.req.session = NoCookie /\ last.req.refresh_session = NoCookie
    /\ DOMAIN companies # {}
    /\ last.response.status = 200

----------------------------------------------------------------------------
(* C24. Signing is deterministic and independent of insertion order, and   *)
(* verification round-trips: the signature of a dict over code,            *)
(* company_id, redirect_to and timestamp is the signature of every dict    *)
(* with the same items in another order, and verify_hmac accepts it.       *)
C24_SignOrderIndependentRoundTrip ==
    last.view = "signed"
        => /\ \A other \in Orders(last.params) : generate_hmac(other) = last.signature
           /\ last.verified = "True"

\* a dict inserted in descending key order, its redirect_to holding a
\* reserved character, signed and verified
C24_Witness ==
    /\ last.view = "signed"
    /\ last.params[1][1] = "timestamp" /\ last.params[4][1] = "code"
    /\ \E i \in 1..4 : last.params[i] = <<"redirect_to", <<"%", "2F", "app">>>>
    /\ last.verified = "True"

----------------------------------------------------------------------------
(* C25. For an integer timestamp that is not in the future,                *)
(* validate_timestamp is true exactly when its age, now - timestamp, is at *)
(* most settings.OAUTH_TIMESTAMP_TOLERANCE: an age equal to the tolerance  *)
(* is accepted, a greater one refused.                                     *)
C25_GuardAcceptsWithinTolerance ==
    (last.view = "validated" /\ last.timestamp.form = "int"
        /\ last.current_time - last.timestamp.val >= 0)
        => (last.valid <=>
               last.current_time - last.timestamp.val <= OAUTH_TIMESTAMP_TOLERANCE)

\* a timestamp whose age is the tolerance, accepted
C25_Witness ==
    /\ last.view = "validated" /\ last.timestamp.form = "int"
    /\ last.current_time - last.timestamp.val = OAUTH_TIMESTAMP_TOLERANCE
    /\ last.valid

----------------------------------------------------------------------------
(* C26. Session and refresh verification share one expiry boundary: at     *)
(* every instant a session token and a refresh token with the same exp,    *)
(* one second before, at, or one second after that instant, are both       *)
(* accepted or both rejected, and both are rejected when exp is earlier;   *)
(* a check and a refresh presenting the application's own token of the     *)
(* right kind reject it exactly when its exp is not later than the         *)
(* request's instant.                                                      *)
C26_OneExpiryBoundary ==
    /\ \A d \in {-1, 0, 1} :
          LET session == SessionToken("c1", now + d - SESSION_MAX_AGE)
              refresh == RefreshToken("c1", now + d - REFRESH_MAX_AGE)
              as_session ==
                  get_current_company_id([session |-> session,
                                          refresh_session |-> NoCookie], now) # None
              as_refresh ==
                  verify_refresh_token([session |-> NoCookie,
                                        refresh_session |-> refresh], now) # None
          IN  /\ session.payload.exp = now + d /\ refresh.payload.exp = now + d
              /\ as_session = as_refresh
              /\ d < 0 => (~as_session /\ ~as_refresh)
    /\ (last.view = "check" /\ last.req.session.key = GENUKA_CLIENT_SECRET
            /\ last.req.session.payload.type = "session")
          => (last.response.body.authenticated
                 <=> last.req.session.payload.exp > last.at)
    /\ (RefreshDone /\ last.req.refresh_session.key = GENUKA_CLIENT_SECRET
            /\ last.req.refresh_session.payload.type = "refresh")
          => ((last.response.status = 401
                  /\ last.response.body.code = "REFRESH_TOKEN_INVALID")
                 <=> last.req.refresh_session.payload.exp <= last.at)

\* a check presenting the session token at the instant of its exp
C26_Witness ==
    /\ last.view = "check"
    /\ last.req.session.key = GENUKA_CLIENT_SECRET
    /\ last.req.session.payload.type = "session"
    /\ last.req.session.payload.exp = last.at
    /\ ~last.response.body.authenticated

----------------------------------------------------------------------------
(* C27. On a successful callback the Location is the redirect_to parameter *)
(* as it was encoded in the query string with one level of                 *)
(* percent-decoding applied. The code applies two: the query string is     *)
(* decoded when request.GET is built, and the view calls unquote on the    *)
(* value it gets from it.                                                  *)
C27_LocationDecodedOnce ==
    (CallbackDone /\ last.response.status = 302 /\ last.req.redirect_to.given)
        => LET in_query_string == quote(last.req.redirect_to.value)
           IN  last.response.location = unquote(in_query_string)

----------------------------------------------------------------------------
\* the columns a refresh sets, and the columns company.updated sets
CredentialFields == {"access_token", "refresh_token", "token_expires_at"}
DisplayFields == {"name", "description"}

\* the row restricted to some of its columns
Columns(row, fields) == [f \in fields |-> row[f]]

(* C28. A company.updated webhook leaves the stored access_token,          *)
(* refresh_token and token_expires_at of its company as they were stored   *)
(* when it saved, and a refresh leaves the stored name and description as  *)
(* they were stored when it saved, under any interleaving. In the code     *)
(* both save every column of the row they read earlier.                    *)
C28_DisjointFieldsKept ==
    /\ (last.view = "webhook" /\ last.req.type = "company.updated"
            /\ last.stored.found /\ last.company_id \in DOMAIN companies)
          => Columns(companies[last.company_id], CredentialFields)
                 = Columns(last.stored.row, CredentialFields)
    /\ (RefreshDone /\ last.stored.found /\ last.company_id \in DOMAIN companies)
          => Columns(companies[last.company_id], DisplayFields)
                 = Columns(last.stored.row, DisplayFields)

----------------------------------------------------------------------------
\* the callback observed passed the parameter, signature and timestamp
\* checks, exchanged its code and upserted the row of company_id
CallbackAuthenticated(obs, table, company_id) ==
    /\ obs.view = "callback"
    /\ obs.req.company_id = company_id
    /\ ParamsPresent(obs.req) /\ SignatureMatches(obs.req)
    /\ obs.req.timestamp.form = "int" /\ Age(obs) <= OAUTH_TIMESTAMP_TOLERANCE
    /\ ExchangeSucceeded(obs)
    /\ company_id \in DOMAIN table
    /\ table[company_id].authorization_code = obs.req.code
    /\ table[company_id].access_token =
           Get(obs.calls[1].reply.body, "access_token", None)

\* the refresh observed carried a valid refresh token for company_id and
\* the provider's refresh call with the refresh token read from its row
\* succeeded
RefreshAuthenticated(obs, company_id) ==
    /\ obs.view = "refresh"
    /\ ValidToken(obs.req.refresh_session, "refresh", obs.at)
    /\ obs.req.refresh_session.payload.companyId = company_id
    /\ obs.loaded.found
    /\ Len(obs.calls) = 1
    /\ obs.calls[1].endpoint = "oauth/refresh"
    /\ obs.calls[1].reply.outcome = "ok"
    /\ Truthy(obs.calls[1].sent)
    /\ obs.calls[1].sent = obs.loaded.row.refresh_token

(* C29. Session credentials are minted only for an authenticated company:  *)
(* every cookie with a token that a response sets is signed with the       *)
(* application's secret and names a company id for which either the        *)
(* request is a callback that passed the parameter, signature and          *)
(* timestamp checks and completed exchange and upsert, or the request      *)
(* carried a valid refresh token for it and the provider's refresh call    *)
(* with the refresh token read from its row succeeded.                     *)
C29_CookiesOnlyForAuthenticated ==
    last.view # "none"
        => \A c \in last.response.cookies :
              c.value # NoCookie
                  => /\ c.value.key = GENUKA_CLIENT_SECRET
                     /\ \/ CallbackAuthenticated(last, companies, c.value.payload.companyId)
                        \/ RefreshAuthenticated(last, c.value.payload.companyId)

\* a refresh that set both cookies for its company
C29_Witness ==
    /\ RefreshDone
    /\ BothCookiesFor(last.response, last.company_id)
    /\ RefreshAuthenticated(last, last.company_id)

====
